---- MODULE Spec2Model ----
(***************************************************************************)
(* adobe-mun-kinobi: the batch run of __main__.process over the discovered *)
(* Adobe products (package.process_package, acrobat.package_patch and its  *)
(* cleanup, the reconciliation against the existing pkginfo files and the  *)
(* munkiimport step), the AdobePackage comparison, the generic XML tree    *)
(* decoder xmltodict.convert_xml, and the functions that read the decoded  *)
(* documents: package.process_opt_xml, package.process_app_description and *)
(* acrobat.minimum_os_ver.                                                 *)
(*                                                                         *)
(* Python strings that the code only passes around are TLA+ strings; the   *)
(* strings the code formats or searches (pkg_name, version, pkginfo_file,  *)
(* the existing pkginfo paths, element text) are sequences of one-letter   *)
(* strings.  Python's None is the token None (NoneS among the sequences).  *)
(***************************************************************************)
EXTENDS Integers, Sequences, FiniteSets, TLC

VARIABLES
    args,           \* the parsed command line: min_os_ver, dry_run, import_sap_code
    existing_pkgs,  \* pkginfo.existing_pkginfo(...): the paths of the repo's pkginfo files
    total,          \* len(packages): the number of discovered products
    idx,            \* how many iterations of the for loop of process() have begun
    pc,             \* where the run is
    package,        \* the dict process_package builds
    patch,          \* the dict acrobat.package_patch builds
    pkg,            \* the AdobePackage of the iteration in progress (NoPkg before it is built)
    mounted,        \* the products whose disk image is attached
    tmp_exists,     \* whether gettempdir()/acrobat exists
    cpos,           \* position inside acrobat.cleanup
    cleanup_log,    \* the calls cleanup made for the current product, in order
    raised,         \* the step whose exception ended the run, or "none"
    imported,       \* len(imported) in process()
    calls,          \* external tools spawned so far, and what the import branch
                    \* of process() did for the product of the iteration
    xml_root,       \* convert_xml: the element handed to it
    xml_out,        \* convert_xml: its result
    cmp_a,          \* AdobePackage comparison: left operand
    cmp_b,          \* AdobePackage comparison: right operand
    cmp_out,        \* AdobePackage comparison: results of == and <
    opt_in,         \* process_opt_xml: the install_info handed to it
    opt_out,        \* process_opt_xml: how it ended, and its local hdmedia
    desc_in,        \* process_app_description: the decoded JSON and the locale
    desc_out,       \* process_app_description: how it ended
    dist_in,        \* minimum_os_ver: the root element of the Distribution file
    dist_out,       \* minimum_os_ver: how it ended, and the patch entry it gives
    rcp_in,         \* optional_receipts: the product's code and its Distribution file
    rcp_out         \* optional_receipts: the receipts the product's record gets

run_vars == <<args, existing_pkgs, total, idx, pc, package, patch, pkg,
              mounted, tmp_exists, cpos, cleanup_log, raised, imported, calls>>
xml_vars == <<xml_root, xml_out>>
cmp_vars == <<cmp_a, cmp_b, cmp_out>>
fun_vars == <<opt_in, opt_out, desc_in, desc_out, dist_in, dist_out, rcp_in, rcp_out>>
vars == <<run_vars, xml_vars, cmp_vars, fun_vars>>

-----------------------------------------------------------------------------
(* Bounds *)

MaxProducts == 2
MaxExisting == 1
MaxChildren == 3
MaxMedia == 3
MaxEntries == 3
MaxChoices == 2

-----------------------------------------------------------------------------
(* Python values *)

None == "<None>"
NoneS == <<"<None>">>

\* bool(x) of a str-or-None value
truthy(x) == x # None /\ x # ""

\* str(x) inside an f-string, for a str-or-None value held as letters
format(x) == IF x = NoneS THEN <<"N", "o", "n", "e">> ELSE x

\* needle in hay, for two str: CPython scans hay left to right for a match
RECURSIVE str_contains(_, _)
str_contains(hay, needle) ==
    IF Len(needle) > Len(hay) THEN FALSE
    ELSE IF SubSeq(hay, 1, Len(needle)) = needle THEN TRUE
    ELSE str_contains(Tail(hay), needle)

-----------------------------------------------------------------------------
(* package.py tables *)

BLOCKING_APPS == [c \in {"APRO"} |-> <<"Microsoft Word", "Safari">>]

\* the two entries of SAP_CODES the model's products use
SAP_CODES == [c \in {"APRO", "PHSP"} |->
                 IF c = "APRO" THEN "Adobe Acrobat Pro" ELSE "Adobe Photoshop"]

ACROBAT_DESCRIPTION ==
    "Adobe Acrobat Pro DC makes your job easier every day with the trusted PDF converter."

-----------------------------------------------------------------------------
(* What a run reads from the command line, the repository and the disk *)

\* argparse's result: --min-os-ver (default None), --dry-run, --import-sap-code
ArgsChoices ==
    [min_os_ver : {None, "11.0"},
     dry_run : BOOLEAN,
     import_sap_code : {{"APRO", "PHSP"}, {"PHSP"}}]

\* pkginfo paths a repository may hold
RepoPaths ==
    {<<"/", "A", "-", "1", "0", ".", "p">>,
     <<"/", "N", "o", "n", "e", "-", "1">>,
     <<"/", "a", "-", "1">>}

ExistingChoices == {e \in SUBSET RepoPaths : Cardinality(e) <= MaxExisting}

\* packages[app]: which of installer and uninstaller discovery found
FilesChoices ==
    {f \in [installer : BOOLEAN, uninstaller : BOOLEAN] : f.installer \/ f.uninstaller}

\* optionXML.xml: the fields process_opt_xml reads in the manifests of the run
ManifestChoices ==
    [pkg_name : {NoneS, <<"A">>},
     arch : {"x64", "arm64"},
     version : {NoneS, <<"1">>},
     sap_code : {"APRO", "PHSP"}]

PlistMinOs == {None, "10.15"}
Descriptions == {"", "D"}
PatchVersions == {<<"1">>, <<"1", "0">>}
PatchReceipts ==
    {<<>>,
     <<[packageid |-> "com.adobe.acrobat.DC.viewer.app.pkg.MUI", version |-> "21.0"]>>}
PatchMinOs == {None, "10.12"}

NoDict == [k \in {} |-> None]
NoPkg == [obj |-> 0]
NoResult == [done |-> FALSE]

-----------------------------------------------------------------------------
(* package.AdobePackage *)

\* __post_init__: self.pkginfo_file = f"{self.pkg_name}-{self.version}"
post_init_pkginfo_file(pkg_name, version) ==
    format(pkg_name) \o <<"-">> \o format(version)

\* AdobePackage(**package), the object built for product obj
AdobePackage(d, obj) ==
    [obj |-> obj,
     pkg_name |-> d.pkg_name,
     arch |-> d.arch,
     sap_code |-> d.sap_code,
     display_name |-> d.display_name,
     version |-> d.version,
     min_os |-> d.min_os,
     installer |-> d.installer,
     uninstaller |-> d.uninstaller,
     receipts |-> d.receipts,
     blocking_apps |-> d.blocking_apps,
     description |-> d.description,
     imported |-> FALSE,
     pkginfo_file |-> post_init_pkginfo_file(d.pkg_name, d.version)]

\* dict.update: the keys of u overlaid on d
dict_update(d, u) ==
    [k \in DOMAIN d \cup DOMAIN u |-> IF k \in DOMAIN u THEN u[k] ELSE d[k]]

-----------------------------------------------------------------------------
(* Decoded documents *)

\* A decoded value is None, a str, a list or a dict:
PyNone == [k |-> "none"]
PyStr(s) == [k |-> "str", s |-> s]
PyList(items) == [k |-> "list", items |-> items]
PyDict(m) == [k |-> "dict", map |-> m]

\* how a call ends: with a value, or with the exception it lets through
Returns(v) == [exc |-> "none", value |-> v]
Raises(e) == [exc |-> e, value |-> NoResult]

\* faulty variant of py_getitem: subscripting what is not a dict is reported
\* as a missing attribute
py_getitem_attribute_error(v, key) ==
    IF v.k # "dict" THEN Raises("AttributeError")
    ELSE IF key \in DOMAIN v.map THEN Returns(v.map[key]) ELSE Raises("KeyError")

\* v[key] for a str key: KeyError on a dict without the key, TypeError on
\* None, a str or a list
py_getitem(v, key) ==
    IF v.k # "dict" THEN Raises("TypeError")
    ELSE IF key \in DOMAIN v.map THEN Returns(v.map[key]) ELSE Raises("KeyError")

\* d.get(key), none being the None of the field
py_get(d, key, none) == IF key \in DOMAIN d THEN d[key] ELSE none

-----------------------------------------------------------------------------
(* package.process_hdmedia, package.process_opt_xml *)

\* `sap_code and sap_code in SAP_CODES` for the candidate media
known_code(media) ==
    /\ media.k = "dict"
    /\ LET sap_code == py_get(media.map, "SAPCode", None)
       IN  truthy(sap_code) /\ sap_code \in DOMAIN SAP_CODES

\* faulty variant of hdmedia_loop: no break, the last match stays in result
hdmedia_loop_no_break(hdmedia, i) ==
    LET items == hdmedia.items
        matches == {j \in i..Len(items) : known_code(items[j])}
    IN  IF matches = {} THEN Raises("UnboundLocalError")
        ELSE Returns(items[CHOOSE j \in matches : \A l \in matches : l <= j])

\* the for loop over a list, from its i-th item on, and the return: an item
\* without .get raises AttributeError, whose handler returns the whole list;
\* a loop that ends without a match leaves result unbound
RECURSIVE hdmedia_loop(_, _)
hdmedia_loop(hdmedia, i) ==
    IF i > Len(hdmedia.items) THEN Raises("UnboundLocalError")
    ELSE LET media == hdmedia.items[i]
         IN  IF media.k # "dict" THEN Returns(hdmedia)
             ELSE IF known_code(media) THEN Returns(media)
             ELSE hdmedia_loop(hdmedia, i + 1)

\* process_hdmedia(hdmedia): iterating None raises TypeError; iterating a dict
\* or a str yields a str, which has no .get, so the handler returns hdmedia
\* itself, unless there is nothing to iterate
process_hdmedia(hdmedia) ==
    CASE hdmedia.k = "none" -> Raises("TypeError")
      [] hdmedia.k = "str" ->
            IF hdmedia.s = <<>> THEN Raises("UnboundLocalError") ELSE Returns(hdmedia)
      [] hdmedia.k = "dict" ->
            IF DOMAIN hdmedia.map = {} THEN Raises("UnboundLocalError")
            ELSE Returns(hdmedia)
      [] hdmedia.k = "list" -> hdmedia_loop(hdmedia, 1)

\* process_hdmedia(install_info[outer][inner])
hdmedia_under(install_info, outer, inner) ==
    LET o == py_getitem(install_info, outer)
    IN  IF o.exc # "none" THEN o
        ELSE LET h == py_getitem(o.value, inner)
             IN  IF h.exc # "none" THEN h ELSE process_hdmedia(h.value)

\* the try/except of process_opt_xml: the local hdmedia, or what is raised
select_hdmedia(install_info) ==
    LET first == hdmedia_under(install_info, "Medias", "Media")
    IN  IF first.exc = "TypeError"
           THEN hdmedia_under(install_info, "HDMedias", "HDMedia")
           ELSE first

\* faulty variant of normalized_arch: the token is passed through
normalized_arch_unchanged(arch) == arch

\* "x86_64" if arch and arch == "x64" else arch
normalized_arch(arch) == IF truthy(arch) /\ arch = "x64" THEN "x86_64" ELSE arch

\* process_display_name(sap_code)
process_display_name(sap_code) ==
    IF sap_code \in DOMAIN SAP_CODES THEN Returns(SAP_CODES[sap_code])
    ELSE Raises("KeyError")

\* process_opt_xml after the try/except, for the selected hdmedia
opt_xml_result(install_info, hdmedia) ==
    LET sap_code == py_getitem(hdmedia, "SAPCode")
        arch == py_getitem(install_info, "ProcessorArchitecture")
    IN  IF sap_code.exc # "none" THEN sap_code
        ELSE IF arch.exc # "none" THEN arch
        ELSE LET display_name == process_display_name(sap_code.value)
             IN  IF display_name.exc # "none" THEN display_name
                 ELSE Returns([pkg_name |-> py_get(install_info.map, "PackageName", NoneS),
                               display_name |-> display_name.value,
                               arch |-> normalized_arch(arch.value),
                               version |-> py_get(hdmedia.map, "productVersion", NoneS),
                               sap_code |-> sap_code.value])

\* process_opt_xml(install_info)
process_opt_xml(install_info) ==
    LET hdmedia == select_hdmedia(install_info)
    IN  IF hdmedia.exc # "none" THEN hdmedia
        ELSE opt_xml_result(install_info, hdmedia.value)

\* convert_xml(read_xml(opt_xml))["InstallInfo"] for the manifest m of the run:
\* Acrobat's descriptor stands under Medias.Media, the others' under
\* HDMedias.HDMedia next to an empty Medias
install_info_of(m) ==
    LET media == PyDict([SAPCode |-> m.sap_code, productVersion |-> m.version])
    IN  PyDict([Medias |-> IF m.sap_code = "APRO"
                              THEN PyDict([Media |-> media]) ELSE PyNone,
                HDMedias |-> IF m.sap_code = "APRO"
                                THEN PyNone ELSE PyDict([HDMedia |-> media]),
                ProcessorArchitecture |-> m.arch,
                PackageName |-> m.pkg_name])

-----------------------------------------------------------------------------
(* The run: __main__.process *)

InitXmlIdle ==
    /\ xml_root = NoResult
    /\ xml_out = NoResult

InitCmpIdle ==
    /\ cmp_a = NoPkg
    /\ cmp_b = NoPkg
    /\ cmp_out = NoResult

InitOptIdle ==
    /\ opt_in = NoResult
    /\ opt_out = NoResult

InitDescIdle ==
    /\ desc_in = NoResult
    /\ desc_out = NoResult

InitDistIdle ==
    /\ dist_in = NoResult
    /\ dist_out = NoResult

InitRcpIdle ==
    /\ rcp_in = NoResult
    /\ rcp_out = NoResult

InitRun ==
    /\ args \in ArgsChoices
    /\ existing_pkgs \in ExistingChoices
    /\ total \in 0..MaxProducts
    /\ idx = 0
    /\ pc = "loop"
    /\ package = NoDict
    /\ patch = NoDict
    /\ pkg = NoPkg
    /\ mounted = {}
    /\ tmp_exists = FALSE
    /\ cpos = 0
    /\ cleanup_log = <<>>
    /\ raised = "none"
    /\ imported = 0
    /\ calls = [munkiimport |-> 0, pkginfo_write |-> 0, makecatalogs |-> 0,
                import_step |-> "none"]

Init ==
    /\ InitRun
    /\ InitXmlIdle
    /\ InitCmpIdle
    /\ InitOptIdle
    /\ InitDescIdle
    /\ InitDistIdle
    /\ InitRcpIdle

\* an uncaught exception leaves process(): nothing in the call chain catches it
Raise(step) ==
    /\ pc' = "raised"
    /\ raised' = step

\* for app, files in packages.items(): files["installer"], files["uninstaller"]
BeginProduct ==
    /\ pc = "loop"
    /\ idx < total
    /\ idx' = idx + 1
    /\ cleanup_log' = <<>>
    /\ package' = NoDict
    /\ patch' = NoDict
    /\ cpos' = 0
    /\ pkg' = NoPkg
    /\ \E f \in FilesChoices :
          IF f.installer /\ f.uninstaller
             THEN pc' = "process_package" /\ raised' = raised
             ELSE Raise("files")
    /\ calls' = [calls EXCEPT !.import_step = "none"]
    /\ UNCHANGED <<args, existing_pkgs, total, mounted, tmp_exists, imported>>
    /\ UNCHANGED <<xml_vars, cmp_vars, fun_vars>>

\* process_package up to the branch on the SAP code
ProcessOptXml ==
    /\ pc = "process_package"
    /\ \/ /\ Raise("process_opt_xml")
          /\ package' = package
       \/ \E m \in ManifestChoices, os \in PlistMinOs :
          LET result == process_opt_xml(install_info_of(m))
          IN /\ result.exc = "none"
             /\ package' =
                   [pkg_name |-> result.value.pkg_name,
                    display_name |-> result.value.display_name,
                    arch |-> result.value.arch,
                    version |-> result.value.version,
                    sap_code |-> result.value.sap_code,
                    installer |-> idx,
                    uninstaller |-> idx,
                    min_os |-> os,
                    blocking_apps |-> IF m.sap_code \in DOMAIN BLOCKING_APPS
                                         THEN BLOCKING_APPS[m.sap_code] ELSE <<>>,
                    receipts |-> <<>>]
             /\ pc' = IF m.sap_code # "APRO" THEN "description" ELSE "mount"
             /\ raised' = raised
    /\ UNCHANGED <<args, existing_pkgs, total, idx, patch, pkg, mounted,
                   tmp_exists, cpos, cleanup_log, imported, calls>>
    /\ UNCHANGED <<xml_vars, cmp_vars, fun_vars>>

\* package["description"] = process_app_description(...)
AppDescription ==
    /\ pc = "description"
    /\ \/ /\ Raise("process_app_description")
          /\ package' = package
       \/ \E d \in Descriptions :
             /\ package' = dict_update(package, [description |-> d])
             /\ pc' = "construct"
             /\ raised' = raised
    /\ UNCHANGED <<args, existing_pkgs, total, idx, patch, pkg, mounted,
                   tmp_exists, cpos, cleanup_log, imported, calls>>
    /\ UNCHANGED <<xml_vars, cmp_vars, fun_vars>>

-----------------------------------------------------------------------------
(* acrobat.package_patch, reached from process_package when sap_code is APRO *)

\* mount_path = dmg.mount(dmg_file): hdiutil attach; DMGException on a non-zero
\* exit, TypeError from subprocess when discovery found no dmg_file (None)
Mount ==
    /\ pc = "mount"
    /\ \/ /\ Raise("mount")
          /\ mounted' = mounted
       \/ /\ mounted' = mounted \cup {idx}
          /\ pc' = "find_installer"
          /\ raised' = raised
    /\ UNCHANGED <<args, existing_pkgs, total, idx, package, patch, pkg,
                   tmp_exists, cpos, cleanup_log, imported, calls>>
    /\ UNCHANGED <<xml_vars, cmp_vars, fun_vars>>

\* installer = find_installer(mount_path): [...][0], IndexError when nothing matches
FindInstaller ==
    /\ pc = "find_installer"
    /\ \/ Raise("find_installer")
       \/ pc' = "expand_package" /\ raised' = raised
    /\ UNCHANGED <<args, existing_pkgs, total, idx, package, patch, pkg, mounted,
                   tmp_exists, cpos, cleanup_log, imported, calls>>
    /\ UNCHANGED <<xml_vars, cmp_vars, fun_vars>>

\* tmp_pkg = expand_package(installer): pkgutil --expand into gettempdir()/acrobat;
\* PkgutilException on a non-zero exit, whatever pkgutil had written by then
ExpandPackage ==
    /\ pc = "expand_package"
    /\ \/ /\ Raise("expand_package")
          /\ tmp_exists' \in BOOLEAN
       \/ /\ tmp_exists' = TRUE
          /\ pc' = "app_version"
          /\ raised' = raised
    /\ UNCHANGED <<args, existing_pkgs, total, idx, package, patch, pkg, mounted,
                   cpos, cleanup_log, imported, calls>>
    /\ UNCHANGED <<xml_vars, cmp_vars, fun_vars>>

\* version = app_version(pkg_info_file)
AppVersion ==
    /\ pc = "app_version"
    /\ \/ /\ Raise("app_version")
          /\ patch' = patch
       \/ \E v \in PatchVersions :
             /\ patch' = dict_update(patch, [version |-> v])
             /\ pc' = "optional_receipts"
             /\ raised' = raised
    /\ UNCHANGED <<args, existing_pkgs, total, idx, package, pkg, mounted,
                   tmp_exists, cpos, cleanup_log, imported, calls>>
    /\ UNCHANGED <<xml_vars, cmp_vars, fun_vars>>

\* receipts = [rd for rd in optional_receipts(dist_xml_file)]
OptionalReceipts ==
    /\ pc = "optional_receipts"
    /\ \/ /\ Raise("optional_receipts")
          /\ patch' = patch
       \/ \E r \in PatchReceipts :
             /\ patch' = dict_update(patch, [receipts |-> r])
             /\ pc' = "minimum_os_ver"
             /\ raised' = raised
    /\ UNCHANGED <<args, existing_pkgs, total, idx, package, pkg, mounted,
                   tmp_exists, cpos, cleanup_log, imported, calls>>
    /\ UNCHANGED <<xml_vars, cmp_vars, fun_vars>>

\* min_os_ver = minimum_os_ver(dist_xml_file); result["min_os"] only when truthy
MinimumOsVer ==
    /\ pc = "minimum_os_ver"
    /\ \/ /\ Raise("minimum_os_ver")
          /\ patch' = patch
          /\ cpos' = cpos
       \/ \E os \in PatchMinOs :
             /\ patch' = IF truthy(os) THEN dict_update(patch, [min_os |-> os]) ELSE patch
             /\ pc' = "cleanup"
             /\ cpos' = 1
             /\ raised' = raised
    /\ UNCHANGED <<args, existing_pkgs, total, idx, package, pkg, mounted,
                   tmp_exists, cleanup_log, imported, calls>>
    /\ UNCHANGED <<xml_vars, cmp_vars, fun_vars>>

\* faulty variants of cleanup_ops: the detach left out; the two statements swapped
cleanup_ops_no_detach == <<"rmtree">>
cleanup_ops_swapped == <<"rmtree", "detach">>

\* cleanup(mount_path, tmp_dir): the calls it can make, in the order of its body
cleanup_ops == <<"detach", "rmtree">>

\* the condition cleanup tests before each call
cleanup_guard(op, mount_path_exists, tmp_dir_exists) ==
    IF op = "detach" THEN mount_path_exists ELSE tmp_dir_exists

\* one statement of cleanup: dmg.detach raises DMGException on a non-zero exit,
\* shutil.rmtree raises OSError; after the last statement package_patch returns
CleanupStep ==
    /\ pc = "cleanup"
    /\ cpos <= Len(cleanup_ops)
    /\ LET op == cleanup_ops[cpos]
           last == cpos = Len(cleanup_ops)
       IN  IF cleanup_guard(op, idx \in mounted, tmp_exists)
              THEN /\ cleanup_log' = Append(cleanup_log, op)
                   /\ \/ /\ Raise(op)
                         /\ UNCHANGED <<mounted, tmp_exists, cpos>>
                      \/ /\ mounted' = IF op = "detach" THEN mounted \ {idx} ELSE mounted
                         /\ tmp_exists' = IF op = "rmtree" THEN FALSE ELSE tmp_exists
                         /\ cpos' = cpos + 1
                         /\ pc' = IF last THEN "construct" ELSE pc
                         /\ raised' = raised
              ELSE /\ cpos' = cpos + 1
                   /\ pc' = IF last THEN "construct" ELSE pc
                   /\ UNCHANGED <<cleanup_log, mounted, tmp_exists, raised>>
    /\ UNCHANGED <<args, existing_pkgs, total, idx, package, patch, pkg,
                   imported, calls>>
    /\ UNCHANGED <<xml_vars, cmp_vars, fun_vars>>

-----------------------------------------------------------------------------
(* process_package's last lines, and the rest of the loop body of process() *)

\* faulty variant of final_package: the Acrobat patches never reach the record
final_package_unpatched(d, acrobat_patches) ==
    IF d.sap_code = "APRO"
       THEN dict_update(d, [description |-> ACROBAT_DESCRIPTION])
       ELSE d

\* the dict AdobePackage is built from: for APRO the fixed description and
\* package.update(acrobat_patches) come first
final_package(d, acrobat_patches) ==
    IF d.sap_code = "APRO"
       THEN dict_update(dict_update(d, [description |-> ACROBAT_DESCRIPTION]),
                        acrobat_patches)
       ELSE d

\* result = AdobePackage(**package); pkg = package.process_package(...)
Construct ==
    /\ pc = "construct"
    /\ pkg' = AdobePackage(final_package(package, patch), idx)
    /\ package' = NoDict
    /\ patch' = NoDict
    /\ pc' = "reconcile"
    /\ UNCHANGED <<args, existing_pkgs, total, idx, mounted,
                   tmp_exists, cpos, cleanup_log, raised, imported, calls>>
    /\ UNCHANGED <<xml_vars, cmp_vars, fun_vars>>

\* faulty variant of is_imported: the path must end with the identifier
is_imported_suffix(pkginfo_file, existing) ==
    \E f \in existing :
        /\ Len(pkginfo_file) <= Len(f)
        /\ SubSeq(f, Len(f) - Len(pkginfo_file) + 1, Len(f)) = pkginfo_file

\* any([pkg.pkginfo_file in str(f) for f in existing_pkgs])
is_imported(pkginfo_file, existing) ==
    \E f \in existing : str_contains(f, pkginfo_file)

\* faulty variant of reconciled: the suffixed display name is written back to the record
reconciled_renames(p, a, existing) ==
    [p EXCEPT !.imported = is_imported(p.pkginfo_file, existing),
              !.min_os = IF truthy(a.min_os_ver) THEN a.min_os_ver ELSE @,
              !.display_name = "Adobe Creative Cloud"]

\* pkg.imported = any(...); if args.min_os_ver: pkg.min_os = args.min_os_ver
reconciled(p, a, existing) ==
    [p EXCEPT !.imported = is_imported(p.pkginfo_file, existing),
              !.min_os = IF truthy(a.min_os_ver) THEN a.min_os_ver ELSE @]

Reconcile ==
    /\ pc = "reconcile"
    /\ pkg' = reconciled(pkg, args, existing_pkgs)
    /\ pc' = "import"
    /\ UNCHANGED <<args, existing_pkgs, total, idx, package, patch, mounted,
                   tmp_exists, cpos, cleanup_log, raised, imported, calls>>
    /\ UNCHANGED <<xml_vars, cmp_vars, fun_vars>>

\* faulty variant of wants_import: the imported flag is not looked at
wants_import_again(p, a) == p.sap_code \in a.import_sap_code

\* if not pkg.imported and pkg.sap_code in args.import_sap_code
wants_import(p, a) == ~p.imported /\ p.sap_code \in a.import_sap_code

\* faulty variant of spawns_import: the tool is run in a dry run too
spawns_import_always(dry_run) == TRUE

\* munkiimport.package: `if dry_run: print(" ".join(cmd))`, else subprocess.run
spawns_import(dry_run) == ~dry_run

\* pkginfo.update reached with receipts: the file is rewritten `if not dry_run`
writes_pkginfo(dry_run, receipts) == ~dry_run /\ receipts # <<>>

\* the else branch: the Skipping line is printed for a product of the selection
import_else(p, a) == IF p.sap_code \in a.import_sap_code THEN "skip" ELSE "pass"

\* the body of that if: munkiimport.package (MunkiImportException on a non-zero
\* exit), pkginfo.update when pkg.receipts (reading the pkginfo file may raise),
\* imported.append(pkginfo_file) when munkiimport returned a path; the else
\* branch only prints
ImportStep ==
    /\ pc = "import"
    /\ IF wants_import(pkg, args)
          THEN IF ~spawns_import(args.dry_run)
                  THEN /\ pc' = "loop"
                       /\ calls' = [calls EXCEPT
                                       !.import_step = "package",
                                       !.pkginfo_write =
                                           IF writes_pkginfo(args.dry_run, pkg.receipts)
                                              THEN @ + 1 ELSE @]
                       /\ UNCHANGED <<raised, imported>>
                  ELSE \/ /\ Raise("munkiimport")
                          /\ calls' = [calls EXCEPT !.munkiimport = @ + 1,
                                                    !.import_step = "package"]
                          /\ imported' = imported
                       \/ /\ pkg.receipts # <<>>
                          /\ Raise("pkginfo_update")
                          /\ calls' = [calls EXCEPT !.munkiimport = @ + 1,
                                                    !.import_step = "package"]
                          /\ imported' = imported
                       \/ /\ calls' = [calls EXCEPT
                                          !.munkiimport = @ + 1,
                                          !.import_step = "package",
                                          !.pkginfo_write =
                                              IF writes_pkginfo(args.dry_run, pkg.receipts)
                                                 THEN @ + 1 ELSE @]
                          /\ imported' = imported + 1
                          /\ pc' = "loop"
                          /\ raised' = raised
          ELSE /\ pc' = "loop"
               /\ calls' = [calls EXCEPT !.import_step = import_else(pkg, args)]
               /\ UNCHANGED <<raised, imported>>
    /\ UNCHANGED <<args, existing_pkgs, total, idx, package, patch, pkg, mounted,
                   tmp_exists, cpos, cleanup_log>>
    /\ UNCHANGED <<xml_vars, cmp_vars, fun_vars>>

\* faulty variant of runs_makecatalogs: the list imported is not looked at
runs_makecatalogs_unconditionally(n_imported, dry_run) == ~dry_run

\* if imported and not args.dry_run
runs_makecatalogs(n_imported, dry_run) == n_imported > 0 /\ ~dry_run

\* the statement after the loop: munkiimport.makecatalogs(munki_repo)
AfterLoop ==
    /\ pc = "loop"
    /\ idx = total
    /\ pc' = "done"
    /\ calls' = IF runs_makecatalogs(imported, args.dry_run)
                   THEN [calls EXCEPT !.makecatalogs = @ + 1]
                   ELSE calls
    /\ UNCHANGED <<args, existing_pkgs, total, idx, package, patch, pkg, mounted,
                   tmp_exists, cpos, cleanup_log, raised, imported>>
    /\ UNCHANGED <<xml_vars, cmp_vars, fun_vars>>

Next ==
    \/ BeginProduct
    \/ ProcessOptXml
    \/ AppDescription
    \/ Mount
    \/ FindInstaller
    \/ ExpandPackage
    \/ AppVersion
    \/ OptionalReceipts
    \/ MinimumOsVer
    \/ CleanupStep
    \/ Construct
    \/ Reconcile
    \/ ImportStep
    \/ AfterLoop

Spec == Init /\ [][Next]_vars

-----------------------------------------------------------------------------
(* Properties of the run *)

Range(q) == {q[i] : i \in DOMAIN q}
Count(q, x) == Cardinality({i \in DOMAIN q : q[i] = x})

\* the steps of package_patch that follow a successful mount
AfterMountSteps ==
    {"find_installer", "expand_package", "app_version", "optional_receipts",
     "minimum_os_ver"}

\* C1: when a step of package_patch after a successful mount fails, the image is
\* unmounted and the temporary expansion directory is gone before the error
\* propagates; when that step is the expansion, the mount point has been
\* detached exactly once and the directory removed exactly once.
C1_ReleasedOnEveryExit ==
    (pc = "raised" /\ raised \in AfterMountSteps) =>
        /\ mounted = {}
        /\ ~tmp_exists
        /\ raised = "expand_package" =>
              /\ Count(cleanup_log, "detach") = 1
              /\ Count(cleanup_log, "rmtree") = 1

\* the fatal conditions of extracting one product
ExtractionFailures == {"process_opt_xml", "mount", "expand_package"}

\* C2: a fatal condition raised while extracting one product does not keep the
\* later products of the batch from being processed: a run that has ended has
\* begun every discovered product.
C2_LaterProductsProcessed ==
    (pc = "raised" /\ raised \in ExtractionFailures) => idx = total

\* C3: products are taken one at a time in discovery order, and whenever the
\* next product begins no image is mounted and the temporary expansion
\* directory does not exist.
C3_TornDownBeforeNext ==
    [][idx' # idx =>
          /\ idx' = idx + 1
          /\ pc = "loop"
          /\ mounted = {} /\ ~tmp_exists
          /\ mounted' = {} /\ ~tmp_exists']_vars

\* a product that went through the nested-package resolution has finished and
\* another product is about to begin
C3_Witness ==
    /\ pc = "loop"
    /\ idx >= 1
    /\ idx < total
    /\ cleanup_log = <<"detach", "rmtree">>

\* C4: within one product's cleanup the unmount is attempted before the
\* deletion, the unmount only while the mount point exists and the deletion
\* only while the directory exists, and neither more than once.
C4_CleanupOrdered ==
    [][(cleanup_log' # cleanup_log /\ cleanup_log' # <<>>) =>
          LET op == cleanup_log'[Len(cleanup_log')]
          IN  /\ cleanup_log' = Append(cleanup_log, op)
              /\ op = "detach" =>
                    /\ idx \in mounted
                    /\ Range(cleanup_log) = {}
              /\ op = "rmtree" =>
                    /\ tmp_exists
                    /\ "rmtree" \notin Range(cleanup_log)]_vars

\* a cleanup that made both calls
C4_Witness ==
    /\ pc = "construct"
    /\ cleanup_log = <<"detach", "rmtree">>

\* s occurs in hay as a run of consecutive letters
OccursIn(s, hay) ==
    \E i \in 1..(Len(hay) + 1), j \in 0..Len(hay) : SubSeq(hay, i, j) = s

\* the record of the current product after the reconciliation pass
Reconciled == pkg # NoPkg /\ pc # "reconcile"

\* C5: already_imported is true iff the derived pkginfo identifier occurs as a
\* substring of at least one path of the existing-record set, and is false
\* whenever that set is empty.
C5_ImportedIffSubstring ==
    Reconciled =>
        /\ pkg.imported <=> \E f \in existing_pkgs : OccursIn(pkg.pkginfo_file, f)
        /\ existing_pkgs = {} => ~pkg.imported

\* the identifier A-1 found inside the longer path /A-10.p
C5_Witness ==
    /\ Reconciled
    /\ pkg.imported
    /\ pkg.pkginfo_file = <<"A", "-", "1">>

\* "<package name>-<version>" for the values a record holds
NameDashVersion(p) ==
    (IF p.pkg_name = NoneS THEN <<"N", "o", "n", "e">> ELSE p.pkg_name)
    \o <<"-">> \o
    (IF p.version = NoneS THEN <<"N", "o", "n", "e">> ELSE p.version)

\* C6: every constructed record's pkginfo identifier is
\* "<package name>-<version>" for its current name and version, for the
\* nested-package family with the version parsed from the expanded package, and
\* that identifier is what is looked up in the existing-record set.
C6_PkginfoIdentifier ==
    /\ [](pkg # NoPkg => pkg.pkginfo_file = NameDashVersion(pkg))
    /\ [][(pc = "construct" /\ pc' = "reconcile" /\ package.sap_code = "APRO") =>
             pkg'.version = patch.version]_vars
    /\ [][(pc = "reconcile" /\ pc' = "import") =>
             (pkg'.imported <=>
                 \E f \in existing_pkgs : OccursIn(NameDashVersion(pkg), f))]_vars

\* an Acrobat record carrying the version of the expanded package
C6_Witness ==
    /\ Reconciled
    /\ pkg.sap_code = "APRO"
    /\ pkg.pkginfo_file = <<"A", "-", "1", "0">>

\* the fields of a record other than those in `except`
SameBut(p, q, except) ==
    \A f \in (DOMAIN p) \ except : q[f] = p[f]

\* C7 as stated: once a record is constructed only its imported flag changes.
C7_OnlyImportedChanges ==
    [][(pkg # NoPkg /\ pkg' # NoPkg) => SameBut(pkg, pkg', {"imported"})]_vars

\* C7 as amended: once a record is constructed only the reconciliation step
\* changes it, and only its imported flag and, when --min-os-ver is given, its
\* min_os, which becomes the given value.
C7_OnlyImportedAndMinOsChange ==
    [][(pkg # NoPkg /\ pkg' # NoPkg) =>
          /\ SameBut(pkg, pkg', {"imported", "min_os"})
          /\ pkg' # pkg => pc = "reconcile"
          /\ pkg'.min_os # pkg.min_os =>
                /\ truthy(args.min_os_ver)
                /\ pkg'.min_os = args.min_os_ver]_vars

\* a record whose min_os was overwritten and whose flag was set
C7_Witness ==
    /\ Reconciled
    /\ pkg.imported
    /\ pkg.min_os = "11.0"
    /\ pkg.sap_code = "PHSP"

-----------------------------------------------------------------------------
(* Comparing two AdobePackage records: @dataclass(eq=True, order=True) *)

\* the code points of the letters the compared fields are made of, ascending
AsciiOrder ==
    <<"1", "4", "6", "8", "A", "B", "H", "O", "P", "R", "S", "_", "a", "m", "r", "x">>

ord(c) == CHOOSE i \in DOMAIN AsciiOrder : AsciiOrder[i] = c

\* the letters of the arch and sap_code values, which the model holds as
\* whole strings
letters(v) ==
    CASE v = "x86_64" -> <<"x", "8", "6", "_", "6", "4">>
      [] v = "arm64" -> <<"a", "r", "m", "6", "4">>
      [] v = "APRO" -> <<"A", "P", "R", "O">>
      [] v = "PHSP" -> <<"P", "H", "S", "P">>

\* the value of field f of record p, as letters
field_letters(p, f) == IF f \in {"pkg_name", "version"} THEN p[f] ELSE letters(p[f])

\* str.__lt__: the first differing letter decides, a proper prefix is smaller
RECURSIVE str_lt(_, _)
str_lt(s, t) ==
    IF t = <<>> THEN FALSE
    ELSE IF s = <<>> THEN TRUE
    ELSE IF Head(s) # Head(t) THEN ord(Head(s)) < ord(Head(t))
    ELSE str_lt(Tail(s), Tail(t))

\* faulty variant of compare_field: version takes part in comparisons
compare_field_with_version(f) == f \in {"pkg_name", "arch", "sap_code", "version"}

\* field(compare=...) of each dataclass field
compare_field(f) == f \in {"pkg_name", "arch", "sap_code"}

\* the fields of AdobePackage in declaration order
dataclass_fields ==
    <<"pkg_name", "arch", "sap_code", "display_name", "version", "min_os", "installer",
      "uninstaller", "receipts", "blocking_apps", "description", "imported">>

\* the tuple the generated __eq__ and __lt__ compare
compare_tuple(p) ==
    LET fs == SelectSeq(dataclass_fields, compare_field)
    IN  [i \in DOMAIN fs |-> field_letters(p, fs[i])]

\* tuple.__lt__: the first pair of unequal items decides with <, which raises
\* TypeError between None and a str
RECURSIVE tuple_lt(_, _)
tuple_lt(s, t) ==
    IF s = <<>> \/ t = <<>> THEN (IF Len(s) < Len(t) THEN "True" ELSE "False")
    ELSE IF Head(s) = Head(t) THEN tuple_lt(Tail(s), Tail(t))
    ELSE IF Head(s) = NoneS \/ Head(t) = NoneS THEN "TypeError"
    ELSE IF str_lt(Head(s), Head(t)) THEN "True" ELSE "False"

dataclass_eq(a, b) == compare_tuple(a) = compare_tuple(b)
dataclass_lt(a, b) == tuple_lt(compare_tuple(a), compare_tuple(b))

\* the records compared
CmpRecords ==
    {[AdobePackage(
        [pkg_name |-> n, arch |-> a, sap_code |-> c, display_name |-> SAP_CODES[c],
         version |-> v, min_os |-> None, installer |-> 1, uninstaller |-> 1,
         receipts |-> r, blocking_apps |-> <<>>, description |-> d], 1)
      EXCEPT !.imported = i] :
        n \in {NoneS, <<"A">>, <<"A", "B">>},
        a \in {"x86_64", "arm64"},
        c \in {"APRO", "PHSP"},
        v \in PatchVersions,
        r \in PatchReceipts,
        d \in Descriptions,
        i \in BOOLEAN}

InitRunIdle ==
    /\ args = [min_os_ver |-> None, dry_run |-> TRUE, import_sap_code |-> {"PHSP"}]
    /\ existing_pkgs = {}
    /\ total = 0
    /\ idx = 0
    /\ pc = "idle"
    /\ package = NoDict
    /\ patch = NoDict
    /\ pkg = NoPkg
    /\ mounted = {}
    /\ tmp_exists = FALSE
    /\ cpos = 0
    /\ cleanup_log = <<>>
    /\ raised = "none"
    /\ imported = 0
    /\ calls = [munkiimport |-> 0, pkginfo_write |-> 0, makecatalogs |-> 0,
                import_step |-> "none"]

InitCmp ==
    /\ InitRunIdle
    /\ InitXmlIdle
    /\ InitOptIdle
    /\ InitDescIdle
    /\ InitDistIdle
    /\ InitRcpIdle
    /\ cmp_a \in CmpRecords
    /\ cmp_b \in CmpRecords
    /\ cmp_out = NoResult

\* a == b, a < b and b < a
Compare ==
    /\ cmp_out = NoResult
    /\ cmp_out' = [done |-> TRUE,
                   eq |-> dataclass_eq(cmp_a, cmp_b),
                   lt |-> dataclass_lt(cmp_a, cmp_b),
                   gt |-> dataclass_lt(cmp_b, cmp_a)]
    /\ UNCHANGED <<cmp_a, cmp_b, run_vars, xml_vars, fun_vars>>

NextCmp == Compare

SpecCmp == InitCmp /\ [][NextCmp]_vars

\* (package name, architecture, product code)
Triple(p) == <<p.pkg_name, letters(p.arch), letters(p.sap_code)>>

\* s sorts before t: they agree up to a point where s ends and t goes on, or
\* where s has the letter of the smaller code point
SortsBefore(s, t) ==
    \E k \in 1..Len(t) :
        /\ k <= Len(s) + 1
        /\ \A j \in 1..(k - 1) : s[j] = t[j]
        /\ \/ k = Len(s) + 1
           \/ ord(s[k]) < ord(t[k])

\* what < gives for two triples: decided at the first position where they differ
TripleOrder(x, y) ==
    IF x = y THEN "False"
    ELSE LET k == CHOOSE i \in 1..3 : x[i] # y[i] /\ \A j \in 1..(i - 1) : x[j] = y[j]
         IN  IF x[k] = NoneS \/ y[k] = NoneS THEN "TypeError"
             ELSE IF SortsBefore(x[k], y[k]) THEN "True" ELSE "False"

\* C8: equality and ordering of two records depend on (package name,
\* architecture, product code) alone: records with the same triple are equal
\* and neither sorts before the other, whatever their other fields; records
\* with different triples are never equal, and < between them is what the
\* triples give.
C8_IdentityComparison ==
    cmp_out.done =>
        /\ cmp_out.eq <=> Triple(cmp_a) = Triple(cmp_b)
        /\ cmp_out.lt = TripleOrder(Triple(cmp_a), Triple(cmp_b))
        /\ cmp_out.gt = TripleOrder(Triple(cmp_b), Triple(cmp_a))

\* two records of one identity that differ in version, description, receipts
\* and imported flag, compared
C8_Witness ==
    /\ cmp_out.done
    /\ cmp_out.eq
    /\ cmp_a.version # cmp_b.version
    /\ cmp_a.description # cmp_b.description
    /\ cmp_a.receipts # cmp_b.receipts
    /\ cmp_a.imported # cmp_b.imported

-----------------------------------------------------------------------------
(* xmltodict.convert_xml *)

\* An ElementTree.Element is [tag, attrib, children, text]: attrib maps
\* attribute names to values, children is list(root), text is NoneS or letters.

\* str.strip(): leading and trailing whitespace removed
RECURSIVE lstrip(_)
lstrip(s) == IF s # <<>> /\ Head(s) = " " THEN lstrip(Tail(s)) ELSE s

RECURSIVE rstrip(_)
rstrip(s) ==
    IF s # <<>> /\ s[Len(s)] = " " THEN rstrip(SubSeq(s, 1, Len(s) - 1)) ELSE s

\* faulty variant of strip: the text is taken as it stands
strip_nothing(s) == s

strip(s) == rstrip(lstrip(s))

\* faulty variant of has_text: `if root.text is not None`
has_text_not_none(text) == text # NoneS

\* `if root.text`: neither None nor the empty string
has_text(text) == text # NoneS /\ text # <<>>

\* faulty variant of collapse: a group is kept as a list whatever its length
collapse_never(v) == PyList(v)

\* v[0] if len(v) == 1 else v
collapse(v) == IF Len(v) = 1 THEN v[1] ELSE PyList(v)

\* the indices from i on of the elements of q tagged t, ascending
RECURSIVE indices_tagged(_, _, _)
indices_tagged(q, i, t) ==
    IF i > Len(q) THEN <<>>
    ELSE (IF q[i].tag = t THEN <<i>> ELSE <<>>) \o indices_tagged(q, i + 1, t)

\* result[root.tag] at the return of convert_xml(root)
RECURSIVE decoded(_)
decoded(root) ==
    LET children == root.children
        \* dd: for each key the decoded children under it, in document order
        dd == [t \in {children[i].tag : i \in DOMAIN children} |->
                  LET at == indices_tagged(children, 1, t)
                  IN  [j \in DOMAIN at |-> decoded(children[at[j]])]]
        grouped == [t \in DOMAIN dd |-> collapse(dd[t])]
        with_attrib ==
            dict_update(grouped, [a \in DOMAIN root.attrib |-> PyStr(root.attrib[a])])
        text == strip(root.text)
    IN  IF children # <<>> \/ DOMAIN root.attrib # {}
           THEN PyDict(IF has_text(root.text) /\ text # <<>>
                          THEN dict_update(with_attrib, [text |-> PyStr(text)])
                          ELSE with_attrib)
           ELSE IF has_text(root.text) THEN PyStr(text) ELSE PyNone

\* the single-key dict convert_xml returns
convert_xml(root) == [t \in {root.tag} |-> decoded(root)]

\* the sequences over S of length at most n
SeqsUpTo(S, n) == UNION {[1..k -> S] : k \in 0..n}

NoAttrib == [a \in {} |-> <<>>]

\* elements without children
XmlLeaves ==
    {[tag |-> t, attrib |-> x.attrib, children |-> <<>>, text |-> x.text] :
        t \in {"a", "b", "text"},
        x \in {[attrib |-> NoAttrib, text |-> NoneS],
                [attrib |-> NoAttrib, text |-> <<"t">>],
                [attrib |-> [id |-> <<"1">>], text |-> <<"t">>]}}

\* elements with one or two children
XmlParents ==
    LET b == [tag |-> "b", attrib |-> NoAttrib, children |-> <<>>, text |-> <<"t">>]
    IN  [tag : {"a"},
         attrib : {NoAttrib},
         children : {<<b>>, <<b, b>>},
         text : {NoneS}]

\* the elements handed to convert_xml
XmlRoots ==
    [tag : {"r"},
     attrib : {NoAttrib, [id |-> <<"1">>], [b |-> <<"1">>], [text |-> <<"1">>]},
     children : SeqsUpTo(XmlLeaves \cup XmlParents, MaxChildren),
     text : {NoneS, <<>>, <<" ">>, <<"t">>, <<" ", "t", " ">>}]

InitXml ==
    /\ InitRunIdle
    /\ InitCmpIdle
    /\ InitOptIdle
    /\ InitDescIdle
    /\ InitDistIdle
    /\ InitRcpIdle
    /\ xml_root \in XmlRoots
    /\ xml_out = NoResult

Decode ==
    /\ ~xml_out.done
    /\ xml_out' = [done |-> TRUE, dict |-> convert_xml(xml_root)]
    /\ UNCHANGED <<xml_root, run_vars, cmp_vars, fun_vars>>

NextXml == Decode

SpecXml == InitXml /\ [][NextXml]_vars

\* the element has neither attributes nor children
Bare(el) == DOMAIN el.attrib = {} /\ el.children = <<>>

\* the result is the single-key mapping {tag: value}
IsSingleKey(d, tag, value) == DOMAIN d = {tag} /\ d[tag] = value

\* C9 as stated: an element with no attributes and no children decodes to
\* {tag: None}.
C9_BareIsNone ==
    (xml_out.done /\ Bare(xml_root)) =>
        IsSingleKey(xml_out.dict, xml_root.tag, PyNone)

\* C9 as amended: an element with no attributes, no children and no text (its
\* text is None or the empty string) decodes to {tag: None}.
C9_BareTextlessIsNone ==
    (xml_out.done /\ Bare(xml_root) /\ xml_root.text \in {NoneS, <<>>}) =>
        IsSingleKey(xml_out.dict, xml_root.tag, PyNone)

\* a bare element whose text is the empty string, decoded
C9_Witness ==
    /\ xml_out.done
    /\ Bare(xml_root)
    /\ xml_root.text = <<>>

\* the positions of the children of el tagged t
Occurrences(el, t) == {i \in DOMAIN el.children : el.children[i].tag = t}

\* under key t the mapping m holds the decoded child when t occurs once among
\* the children of el, and otherwise the list of the decoded children tagged t,
\* as many as there are and in document order
GroupedUnder(m, el, t) ==
    LET occ == Occurrences(el, t)
    IN  /\ t \in DOMAIN m
        /\ Cardinality(occ) = 1 =>
              \A i \in occ : m[t] = decoded(el.children[i])
        /\ Cardinality(occ) >= 2 =>
              /\ m[t].k = "list"
              /\ Len(m[t].items) = Cardinality(occ)
              /\ \A i \in occ :
                    m[t].items[Cardinality({j \in occ : j <= i})] =
                        decoded(el.children[i])

ChildTags(el) == {el.children[i].tag : i \in DOMAIN el.children}

\* C10 as stated: every child tag of an element maps to the decoded child when
\* it occurs once and to the ordered list of the decoded children when it
\* occurs more often.
C10_ChildrenGrouped ==
    (xml_out.done /\ xml_root.children # <<>>) =>
        /\ xml_out.dict[xml_root.tag].k = "dict"
        /\ \A t \in ChildTags(xml_root) :
              GroupedUnder(xml_out.dict[xml_root.tag].map, xml_root, t)

\* the child tags whose key an attribute of the same name, or the element's own
\* text under the reserved key, overwrites
Overwritten(el) ==
    DOMAIN el.attrib \cup (IF strip(format(el.text)) # <<>> /\ el.text # NoneS
                              THEN {"text"} ELSE {})

\* C10 as amended: the same, for every child tag that is not also the name of
\* an attribute of the element and is not `text` while the element has
\* non-empty trimmed text.
C10_ChildrenGroupedUnlessOverwritten ==
    (xml_out.done /\ xml_root.children # <<>>) =>
        /\ xml_out.dict[xml_root.tag].k = "dict"
        /\ \A t \in ChildTags(xml_root) \ Overwritten(xml_root) :
              GroupedUnder(xml_out.dict[xml_root.tag].map, xml_root, t)

\* an element with a tag occurring once and another occurring twice, decoded
C10_Witness ==
    /\ xml_out.done
    /\ \E t \in ChildTags(xml_root) \ Overwritten(xml_root) :
          Cardinality(Occurrences(xml_root, t)) = 1
    /\ \E t \in ChildTags(xml_root) \ Overwritten(xml_root) :
          /\ Cardinality(Occurrences(xml_root, t)) >= 2
          /\ \E i, j \in Occurrences(xml_root, t) :
                decoded(xml_root.children[i]) # decoded(xml_root.children[j])

\* the text of el without its leading and trailing blanks (nothing for None)
TrimmedText(el) ==
    IF el.text = NoneS THEN <<>>
    ELSE LET t == el.text
             cut == CHOOSE c \in (0..Len(t)) \X (0..Len(t)) :
                       /\ c[1] + c[2] <= Len(t)
                       /\ \A i \in 1..c[1] : t[i] = " "
                       /\ \A i \in (Len(t) - c[2] + 1)..Len(t) : t[i] = " "
                       /\ c[1] + c[2] < Len(t) =>
                             t[c[1] + 1] # " " /\ t[Len(t) - c[2]] # " "
                       /\ c[1] + c[2] = Len(t) => c[2] = 0
         IN  SubSeq(t, cut[1] + 1, Len(t) - cut[2])

\* C11 as stated: for an element with children or attributes the mapping holds
\* every attribute under its own key and holds the reserved key `text` exactly
\* when the trimmed text is non-empty; an element with text and neither
\* children nor attributes decodes to the trimmed text itself, not a mapping.
C11_AttributesAndText ==
    xml_out.done =>
        LET v == xml_out.dict[xml_root.tag]
        IN  /\ ~Bare(xml_root) =>
                  /\ v.k = "dict"
                  /\ \A a \in DOMAIN xml_root.attrib :
                        a \in DOMAIN v.map /\ v.map[a] = PyStr(xml_root.attrib[a])
                  /\ "text" \in DOMAIN v.map <=> TrimmedText(xml_root) # <<>>
            /\ (Bare(xml_root) /\ xml_root.text \notin {NoneS, <<>>}) =>
                  v = PyStr(TrimmedText(xml_root))

\* C11 as amended: for an element with children or attributes the mapping holds
\* every attribute under its own key, except an attribute named `text` when the
\* trimmed text is non-empty; it holds the trimmed text under the reserved key
\* `text` when that text is non-empty, and has no key `text` when the text is
\* empty and neither a child nor an attribute is named `text`; an element with
\* text and neither children nor attributes decodes to the trimmed text itself.
C11_AttributesAndTextUnlessNamedText ==
    xml_out.done =>
        LET v == xml_out.dict[xml_root.tag]
            trimmed == TrimmedText(xml_root)
        IN  /\ ~Bare(xml_root) =>
                  /\ v.k = "dict"
                  /\ \A a \in DOMAIN xml_root.attrib :
                        (a # "text" \/ trimmed = <<>>) =>
                            a \in DOMAIN v.map /\ v.map[a] = PyStr(xml_root.attrib[a])
                  /\ trimmed # <<>> =>
                        "text" \in DOMAIN v.map /\ v.map["text"] = PyStr(trimmed)
                  /\ (/\ trimmed = <<>>
                      /\ "text" \notin ChildTags(xml_root) \cup DOMAIN xml_root.attrib) =>
                        "text" \notin DOMAIN v.map
            /\ (Bare(xml_root) /\ xml_root.text \notin {NoneS, <<>>}) =>
                  v = PyStr(trimmed)

\* an element with an attribute, children and text that needs trimming, decoded
C11_Witness ==
    /\ xml_out.done
    /\ DOMAIN xml_root.attrib # {}
    /\ xml_root.children # <<>>
    /\ TrimmedText(xml_root) # <<>>
    /\ TrimmedText(xml_root) # xml_root.text

-----------------------------------------------------------------------------
(* package.process_opt_xml as a function of install_info *)

\* the non-empty lists of at most n elements of S
ListsUpTo(S, n) == UNION {[1..l -> S] : l \in 1..n}

\* one entry of a dict, or no entry
Entry(key, values) == {NoDict} \cup {[k \in {key} |-> v] : v \in values}

\* a media descriptor: SAPCode missing, empty, unknown or known, with or
\* without productVersion (a decoded element is never the empty dict)
MediaDescriptors ==
    {PyDict(dict_update(c, v)) :
        <<c, v>> \in {e \in Entry("SAPCode", {None, "XXXX", "APRO", "PHSP"})
                            \X Entry("productVersion", {<<"1">>}) :
                        e[1] # NoDict \/ e[2] # NoDict}}

\* the descriptors of the manifests with several Media elements
MediaCandidates ==
    {PyDict([productVersion |-> <<"1">>]),
     PyDict([SAPCode |-> "XXXX"]),
     PyDict([SAPCode |-> "APRO", productVersion |-> <<"1">>]),
     PyDict([SAPCode |-> "PHSP"]),
     PyDict([SAPCode |-> "PHSP", productVersion |-> <<"1">>])}

\* what stands under Media: nothing, one descriptor, or several elements
MediaValues ==
    {PyNone} \cup MediaDescriptors
        \cup {PyList(q) : q \in ListsUpTo(MediaCandidates, MaxMedia)}
        \cup {PyList(<<PyNone, PyDict([SAPCode |-> "PHSP"])>>)}

\* what stands under HDMedia
HDMediaValues ==
    {PyNone} \cup MediaDescriptors
        \cup {PyList(<<PyDict([SAPCode |-> "XXXX"]),
                       PyDict([SAPCode |-> "PHSP", productVersion |-> <<"1">>])>>)}

\* the element Medias (or HDMedias): empty, with attributes only, or with the
\* child Media (or HDMedia)
Collection(inner, values) ==
    {PyNone, PyDict([id |-> PyStr(<<"1">>)])}
        \cup {PyDict([k \in {inner} |-> v]) : v \in values}

\* ProcessorArchitecture: empty, the one token that is rewritten, and others
ArchTokens == {None, "x64", "arm64", "x86_64", "ppc"}

\* the decoded InstallInfo elements handed to process_opt_xml
InstallInfos ==
    {PyDict(dict_update(dict_update(m, h), dict_update(a, p))) :
        <<m, h, a, p>> \in
            Entry("Medias", Collection("Media", MediaValues))
                \X Entry("HDMedias", Collection("HDMedia", HDMediaValues))
                \X Entry("ProcessorArchitecture", ArchTokens)
                \X Entry("PackageName", {<<"A">>})}

\* install_info with v under install_info[outer][inner]
with_media(install_info, outer, inner, v) ==
    PyDict(dict_update(install_info.map, [k \in {outer} |-> PyDict([l \in {inner} |-> v])]))

\* whether install_info[outer][inner] is there, and then its value
has_media(install_info, outer, inner) ==
    /\ outer \in DOMAIN install_info.map
    /\ install_info.map[outer].k = "dict"
    /\ inner \in DOMAIN install_info.map[outer].map

media_of(install_info, outer, inner) == install_info.map[outer].map[inner]

\* install_info with the single descriptor under Medias.Media, and the one
\* under HDMedias.HDMedia, each made a list of one
as_list_of_one(install_info) ==
    LET listed(info, outer, inner) ==
            IF has_media(info, outer, inner) /\ media_of(info, outer, inner).k = "dict"
               THEN with_media(info, outer, inner, PyList(<<media_of(info, outer, inner)>>))
               ELSE info
    IN  listed(listed(install_info, "Medias", "Media"), "HDMedias", "HDMedia")

InitOpt ==
    /\ InitRunIdle
    /\ InitXmlIdle
    /\ InitCmpIdle
    /\ InitDescIdle
    /\ InitDistIdle
    /\ InitRcpIdle
    /\ opt_in \in InstallInfos
    /\ opt_out = NoResult

\* process_opt_xml(install_info), and the same call with every single
\* descriptor of install_info handed over as a list of one
Extract ==
    /\ ~opt_out.done
    /\ opt_out' = [done |-> TRUE,
                   hdmedia |-> select_hdmedia(opt_in),
                   result |-> process_opt_xml(opt_in),
                   of_list |-> process_opt_xml(as_list_of_one(opt_in))]
    /\ UNCHANGED <<opt_in, desc_in, desc_out, dist_in, dist_out, rcp_in, rcp_out,
                   run_vars, xml_vars, cmp_vars>>

NextOpt == Extract

SpecOpt == InitOpt /\ [][NextOpt]_vars

\* the manifest does not hold a media collection at install_info[outer][inner]
NoMedia(install_info, outer, inner) ==
    \/ ~has_media(install_info, outer, inner)
    \/ media_of(install_info, outer, inner) = PyNone

\* install_info holds a single media descriptor, under Medias.Media or under
\* HDMedias.HDMedia
SingleDescriptor(install_info) ==
    \E c \in {<<"Medias", "Media">>, <<"HDMedias", "HDMedia">>} :
        /\ has_media(install_info, c[1], c[2])
        /\ media_of(install_info, c[1], c[2]).k = "dict"

\* C12: a manifest whose media collection is a single descriptor and the
\* manifest whose collection is the list of that one descriptor end the same
\* way: with the same record, or with the same failure.
C12_SingleAsListOfOne ==
    (opt_out.done /\ SingleDescriptor(opt_in)) => opt_out.of_list = opt_out.result

\* the descriptor carries a product code of the table
HasKnownCode(d) == "SAPCode" \in DOMAIN d.map /\ d.map["SAPCode"] \in DOMAIN SAP_CODES

\* install_info holds under Medias.Media a list of descriptors, one of them at
\* least with a known product code
SeveralCandidates(install_info) ==
    /\ has_media(install_info, "Medias", "Media")
    /\ LET media == media_of(install_info, "Medias", "Media")
       IN  /\ media.k = "list"
           /\ \A i \in DOMAIN media.items : media.items[i].k = "dict"
           /\ \E i \in DOMAIN media.items : HasKnownCode(media.items[i])

KnownHDMedia(install_info) ==
    /\ has_media(install_info, "HDMedias", "HDMedia")
    /\ "ProcessorArchitecture" \in DOMAIN install_info.map
    /\ LET media == media_of(install_info, "HDMedias", "HDMedia")
       IN  \/ media.k = "dict" /\ HasKnownCode(media)
           \/ /\ media.k = "list"
              /\ \A i \in DOMAIN media.items : media.items[i].k = "dict"
              /\ \E i \in DOMAIN media.items : HasKnownCode(media.items[i])

\* the descriptors under HDMedias.HDMedia
HDMediaDescriptors(install_info) ==
    LET media == media_of(install_info, "HDMedias", "HDMedia")
    IN  IF media.k = "list" THEN Range(media.items) ELSE {media}

\* C14: a manifest with a known product code under HDMedias.HDMedia and with
\* no Medias.Media (the Medias key missing, or there without a usable Media
\* child) yields the record built from the HDMedia descriptor, not a failure.
C14_FallsBackToHDMedias ==
    (opt_out.done /\ NoMedia(opt_in, "Medias", "Media") /\ KnownHDMedia(opt_in)) =>
        /\ opt_out.result.exc = "none"
        /\ \E d \in HDMediaDescriptors(opt_in) :
              /\ HasKnownCode(d)
              /\ opt_out.result.value.sap_code = d.map["SAPCode"]
              /\ opt_out.result.value.version = py_get(d.map, "productVersion", NoneS)

NoKnownCode(install_info) ==
    /\ has_media(install_info, "Medias", "Media")
    /\ LET media == media_of(install_info, "Medias", "Media")
       IN  \/ media.k = "dict" /\ ~HasKnownCode(media)
           \/ /\ media.k = "list"
              /\ \A i \in DOMAIN media.items :
                    media.items[i].k = "dict" /\ ~HasKnownCode(media.items[i])

\* C16: when the descriptor reached carries no product code of the table, be
\* it a single descriptor or a list without a known code, the call fails with
\* a KeyError and returns no record.
C16_UnknownCodeIsKeyError ==
    (opt_out.done /\ NoKnownCode(opt_in)) => opt_out.result.exc = "KeyError"

\* install_info holds a single descriptor with a known product code under
\* Medias.Media, and a ProcessorArchitecture
KnownMedia(install_info) ==
    /\ has_media(install_info, "Medias", "Media")
    /\ media_of(install_info, "Medias", "Media").k = "dict"
    /\ HasKnownCode(media_of(install_info, "Medias", "Media"))
    /\ "ProcessorArchitecture" \in DOMAIN install_info.map

\* C17: the record's architecture is x86_64 when the manifest's token is x64
\* and the manifest's token itself otherwise, and no token makes the call fail.
C17_ArchNormalized ==
    opt_out.done =>
        /\ KnownMedia(opt_in) => opt_out.result.exc = "none"
        /\ opt_out.result.exc = "none" =>
              LET token == opt_in.map["ProcessorArchitecture"]
              IN  /\ token = "x64" => opt_out.result.value.arch = "x86_64"
                  /\ token # "x64" => opt_out.result.value.arch = token

\* a manifest with the token x64, and a record built from it
C17_Witness ==
    /\ opt_out.done
    /\ opt_out.result.exc = "none"
    /\ opt_in.map["ProcessorArchitecture"] = "x64"

-----------------------------------------------------------------------------
(* package.process_app_description as a function of app_json and locale *)

SUPPORTED_LOCALES ==
    {"ar_AE", "cs_CZ", "da_DK", "de_DE", "en_AE", "en_GB", "en_IL", "en_US",
     "en_XM", "es_ES", "es_MX", "fi_FI", "fr_CA", "fr_FR", "fr_MA", "fr_XM",
     "he_IL", "hu_HU", "it_IT", "ja_JP", "ko_KR", "nb_NO", "nl_NL", "no_NO",
     "pl_PL", "pt_BR", "ru_RU", "sv_SE", "th_TH", "tr_TR", "uk_UA", "zh_CN",
     "zh_TW"}

\* v[keys[1]][keys[2]]..., evaluated left to right
RECURSIVE py_path(_, _)
py_path(v, keys) ==
    IF keys = <<>> THEN Returns(v)
    ELSE LET next == py_getitem(v, Head(keys))
         IN  IF next.exc # "none" THEN next ELSE py_path(next.value, Tail(keys))

\* faulty variant of desc_locales: the tagline is read first
desc_locales_tagline_first(app_json) ==
    LET tagline == py_path(app_json, <<"ProductDescription", "Tagline", "Language">>)
    IN  IF tagline.exc = "KeyError"
           THEN py_path(app_json, <<"ProductDescription", "DetailedDescription", "Language">>)
           ELSE tagline

\* the try/except of process_app_description: the local desc_locales
desc_locales(app_json) ==
    LET detailed ==
            py_path(app_json, <<"ProductDescription", "DetailedDescription", "Language">>)
    IN  IF detailed.exc = "KeyError"
           THEN py_path(app_json, <<"ProductDescription", "Tagline", "Language">>)
           ELSE detailed

\* faulty variant of keeps: the locale is not looked up in SUPPORTED_LOCALES
keeps_any_locale(desc, locale, descriptions) ==
    desc.locale = locale /\ desc.value \notin Range(descriptions)

\* the test of the loop for the entry desc
keeps(desc, locale, descriptions) ==
    /\ desc.locale = locale
    /\ desc.locale \in SUPPORTED_LOCALES
    /\ desc.value \notin Range(descriptions)

\* the list descriptions after the entries from the i-th on
RECURSIVE descriptions_loop(_, _, _, _)
descriptions_loop(entries, i, locale, descriptions) ==
    IF i > Len(entries) THEN descriptions
    ELSE descriptions_loop(entries, i + 1, locale,
                           IF keeps(entries[i], locale, descriptions)
                              THEN Append(descriptions, entries[i].value)
                              ELSE descriptions)

\* sep.join(q)
RECURSIVE str_join(_, _)
str_join(sep, q) ==
    IF q = <<>> THEN <<>>
    ELSE IF Len(q) = 1 THEN q[1]
    ELSE q[1] \o sep \o str_join(sep, Tail(q))

\* process_app_description, the file already read into app_json
process_app_description(app_json, locale) ==
    LET found == desc_locales(app_json)
    IN  IF found.exc # "none" THEN found
        ELSE LET descriptions == descriptions_loop(found.value.items, 1, locale, <<>>)
             IN  Returns(IF Len(descriptions) > 1 THEN str_join(<<" ">>, descriptions)
                                                  ELSE str_join(<<>>, descriptions))

\* the {locale, value} objects of the Language collections
LanguageEntries == [locale : {"en_GB", "fr_FR", "xx_XX"}, value : {<<"A">>, <<"B">>}]

\* DetailedDescription (or Tagline): an object with or without Language
Described(lists) == {PyDict(e) : e \in Entry("Language", {PyList(q) : q \in lists})}

\* the decoded Application.json files
AppJsons ==
    {PyDict(NoDict)} \cup
    {PyDict([ProductDescription |-> PyDict(dict_update(d, t))]) :
        <<d, t>> \in
            Entry("DetailedDescription", Described(SeqsUpTo(LanguageEntries, MaxEntries)))
                \X Entry("Tagline",
                         Described({<<>>,
                                    <<[locale |-> "en_GB", value |-> <<"B">>]>>,
                                    <<[locale |-> "fr_FR", value |-> <<"A">>],
                                      [locale |-> "en_GB", value |-> <<"A">>]>>}))}

InitDesc ==
    /\ InitRunIdle
    /\ InitXmlIdle
    /\ InitCmpIdle
    /\ InitOptIdle
    /\ InitDistIdle
    /\ InitRcpIdle
    /\ desc_in \in [app_json : AppJsons, locale : {"en_GB", "fr_FR", "xx_XX"}]
    /\ desc_out = NoResult

Describe ==
    /\ ~desc_out.done
    /\ desc_out' = [done |-> TRUE,
                    desc_locales |-> desc_locales(desc_in.app_json),
                    result |-> process_app_description(desc_in.app_json, desc_in.locale)]
    /\ UNCHANGED <<desc_in, opt_in, opt_out, dist_in, dist_out, rcp_in, rcp_out,
                   run_vars, xml_vars, cmp_vars>>

NextDesc == Describe

SpecDesc == InitDesc /\ [][NextDesc]_vars

\* the positions of the entries that survive: tagged with the requested
\* locale, itself a supported one, and with a value no earlier such entry has
Surviving(entries, locale) ==
    {i \in DOMAIN entries :
        /\ entries[i].locale = locale
        /\ locale \in SUPPORTED_LOCALES
        /\ \A j \in 1..(i - 1) :
              ~(entries[j].locale = locale /\ entries[j].value = entries[i].value)}

\* the values at the positions I in ascending order, a space between two
RECURSIVE SpaceJoined(_, _)
SpaceJoined(entries, I) ==
    IF I = {} THEN <<>>
    ELSE LET i == CHOOSE m \in I : \A l \in I : m <= l
         IN  entries[i].value \o
                (IF I = {i} THEN <<>> ELSE <<" ">> \o SpaceJoined(entries, I \ {i}))

\* C18: the description is made of the values of the entries whose locale is
\* the requested one and is a supported one, each distinct value once, in the
\* order of first occurrence, with a single space between two of them and no
\* separator when at most one survives.
C18_FilteredDedupedJoined ==
    (desc_out.done /\ desc_out.result.exc = "none") =>
        LET entries == desc_out.desc_locales.value.items
            kept == Surviving(entries, desc_in.locale)
        IN  /\ desc_out.result.value = SpaceJoined(entries, kept)
            /\ Cardinality(kept) = 1 =>
                  \A i \in kept : desc_out.result.value = entries[i].value
            /\ Cardinality(kept) = 0 => desc_out.result.value = <<>>

\* the entries A and A of the requested locale and B of another one, described
\* as A
C18_Witness ==
    /\ desc_out.done
    /\ desc_out.result = Returns(<<"A">>)
    /\ LET entries == desc_out.desc_locales.value.items
       IN  /\ Len(entries) = 3
           /\ \E i, j, l \in DOMAIN entries :
                 /\ i # j
                 /\ entries[i] = [locale |-> desc_in.locale, value |-> <<"A">>]
                 /\ entries[j] = entries[i]
                 /\ entries[l].locale # desc_in.locale
                 /\ entries[l].value = <<"B">>

\* app_json has the path ProductDescription.<which>.Language
HasLanguage(app_json, which) ==
    /\ "ProductDescription" \in DOMAIN app_json.map
    /\ which \in DOMAIN app_json.map["ProductDescription"].map
    /\ "Language" \in DOMAIN app_json.map["ProductDescription"].map[which].map

LanguageOf(app_json, which) ==
    app_json.map["ProductDescription"].map[which].map["Language"]

\* C19: the entries read are those of DetailedDescription.Language when that
\* path is there, those of Tagline.Language only when it is not, and the call
\* fails with a LookupError (KeyError or IndexError) when neither is there.
C19_DetailedThenTagline ==
    desc_out.done =>
        LET app_json == desc_in.app_json
        IN  /\ HasLanguage(app_json, "DetailedDescription") =>
                  desc_out.desc_locales =
                      Returns(LanguageOf(app_json, "DetailedDescription"))
            /\ (/\ ~HasLanguage(app_json, "DetailedDescription")
                /\ HasLanguage(app_json, "Tagline")) =>
                  desc_out.desc_locales = Returns(LanguageOf(app_json, "Tagline"))
            /\ (/\ ~HasLanguage(app_json, "DetailedDescription")
                /\ ~HasLanguage(app_json, "Tagline")) =>
                  /\ desc_out.result.exc \in {"KeyError", "IndexError"}
                  /\ desc_out.result.value = NoResult

\* a file with both paths and different entries under them, described
C19_Witness ==
    /\ desc_out.done
    /\ HasLanguage(desc_in.app_json, "DetailedDescription")
    /\ HasLanguage(desc_in.app_json, "Tagline")
    /\ LanguageOf(desc_in.app_json, "DetailedDescription")
          # LanguageOf(desc_in.app_json, "Tagline")
    /\ desc_out.result.exc = "none"

-----------------------------------------------------------------------------
(* acrobat.minimum_os_ver as a function of the Distribution file, and the   *)
(* min_os entry package_patch makes of it                                   *)

\* bool(v) of a decoded value
py_truthy(v) ==
    CASE v.k = "none" -> FALSE
      [] v.k = "str" -> v.s # <<>>
      [] v.k = "list" -> v.items # <<>>
      [] v.k = "dict" -> DOMAIN v.map # {}

\* minimum_os_ver after dist_xml = convert_xml(read_xml(dist_file)): a
\* KeyError at either statement of the try gives None, any other exception
\* leaves the function
minimum_os_ver(dist_xml) ==
    LET allowed_os_vers ==
            py_path(dist_xml,
                    <<"installer-gui-script", "volume-check", "allowed-os-versions">>)
    IN  IF allowed_os_vers.exc = "KeyError" THEN Returns(PyNone)
        ELSE IF allowed_os_vers.exc # "none" THEN allowed_os_vers
        ELSE LET result == py_path(allowed_os_vers.value, <<"os-version", "min">>)
             IN  IF result.exc = "KeyError" THEN Returns(PyNone) ELSE result

\* package_patch: `if min_os_ver: result["min_os"] = min_os_ver`
min_os_entry(min_os_ver) ==
    IF py_truthy(min_os_ver) THEN [min_os |-> min_os_ver] ELSE NoDict

Element(tag, attrib, children) ==
    [tag |-> tag, attrib |-> attrib, children |-> children, text |-> NoneS]

\* <os-version>: empty, with min, with an empty min, with another attribute
OsVersions ==
    {Element("os-version", a, <<>>) :
        a \in {NoAttrib, [min |-> <<"1", "0">>], [min |-> <<>>], [before |-> <<"1", "1">>]}}

\* <allowed-os-versions>: empty, with one os-version, or with two
AllowedOsVersions ==
    {Element("allowed-os-versions", NoAttrib, q) :
        q \in {<<>>} \cup {<<o>> : o \in OsVersions}
                \cup {<<Element("os-version", [min |-> <<"1", "0">>], <<>>),
                        Element("os-version", [min |-> <<"1", "1">>], <<>>)>>}}

\* <volume-check>: empty or with a script attribute, with another child only,
\* or with allowed-os-versions
VolumeChecks ==
    {Element("volume-check", a, q) :
        <<a, q>> \in {NoAttrib, [script |-> <<"s">>]}
                        \X ({<<>>, <<Element("other", [id |-> <<"1">>], <<>>)>>}
                                \cup {<<v>> : v \in AllowedOsVersions})}

\* the root elements of the Distribution files: one or two choice elements,
\* and volume-check or not
Distributions ==
    LET choice == Element("choice", [id |-> <<"1">>], <<>>)
    IN  {Element("installer-gui-script", a, c \o v) :
            <<a, c, v>> \in {NoAttrib, [minSpecVersion |-> <<"1">>]}
                              \X {<<choice>>, <<choice, choice>>}
                              \X ({<<>>} \cup {<<x>> : x \in VolumeChecks})}

InitDist ==
    /\ InitRunIdle
    /\ InitXmlIdle
    /\ InitCmpIdle
    /\ InitOptIdle
    /\ InitDescIdle
    /\ InitRcpIdle
    /\ dist_in \in Distributions
    /\ dist_out = NoResult

\* min_os_ver = minimum_os_ver(dist_xml_file), and what package_patch adds to
\* its result when the call returns
ParseMinOs ==
    /\ ~dist_out.done
    /\ LET min_os_ver == minimum_os_ver(PyDict(convert_xml(dist_in)))
       IN  dist_out' = [done |-> TRUE,
                        result |-> min_os_ver,
                        patch |-> IF min_os_ver.exc = "none"
                                     THEN min_os_entry(min_os_ver.value) ELSE NoDict]
    /\ UNCHANGED <<dist_in, opt_in, opt_out, desc_in, desc_out, rcp_in, rcp_out,
                   run_vars, xml_vars, cmp_vars>>

NextDist == ParseMinOs

SpecDist == InitDist /\ [][NextDist]_vars

\* the children of el tagged t
Children(el, t) == {el.children[i] : i \in Occurrences(el, t)}

\* the script gives a minimum OS: some os-version under allowed-os-versions
\* under volume-check has a non-empty min
GivesMinOs(root) ==
    \E vc \in Children(root, "volume-check") :
        \E aov \in Children(vc, "allowed-os-versions") :
            \E osv \in Children(aov, "os-version") :
                "min" \in DOMAIN osv.attrib /\ osv.attrib["min"] # <<>>

\* C20: when the script gives no minimum OS, an element of the path
\* volume-check.allowed-os-versions.os-version.min being missing or there and
\* empty, parsing raises nothing and the result has no min_os.
C20_AbsentMinOsOmitted ==
    (dist_out.done /\ ~GivesMinOs(dist_in)) =>
        /\ dist_out.result.exc = "none"
        /\ "min_os" \notin DOMAIN dist_out.patch

-----------------------------------------------------------------------------
(* acrobat.optional_receipts as a function of the Distribution file, and    *)
(* the receipts process_package gives the record                            *)

\* the identifiers are held whole, each a str of one piece
ACROBAT_RECEIPT_ATTRS ==
    {<<"com.adobe.acrobat.DC.viewer.app.pkg.MUI">>,
     <<"com.adobe.acrobat.DC.viewer.appsupport.pkg.MUI">>,
     <<"com.adobe.acrobat.DC.viewer.browser.pkg.MUI">>,
     <<"com.adobe.acrobat.DC.viewer.print_automator.pkg.MUI">>,
     <<"com.adobe.acrobat.DC.viewer.print_pdf_services.pkg.MUI">>}

\* [c["pkg-ref"] for c in items], from the i-th item on
RECURSIVE pkg_refs_from(_, _)
pkg_refs_from(items, i) ==
    IF i > Len(items) THEN Returns(<<>>)
    ELSE LET ref == py_getitem(items[i], "pkg-ref")
         IN  IF ref.exc # "none" THEN ref
             ELSE LET rest == pkg_refs_from(items, i + 1)
                  IN  IF rest.exc # "none" THEN rest
                      ELSE Returns(<<ref.value>> \o rest.value)

\* [c["pkg-ref"] for c in choices]: iterating None raises TypeError, and
\* iterating a dict or a str yields a str, whose subscript raises TypeError
choice_pkg_refs(choices) ==
    CASE choices.k = "none" -> Raises("TypeError")
      [] choices.k = "str" ->
            IF choices.s = <<>> THEN Returns(<<>>) ELSE Raises("TypeError")
      [] choices.k = "dict" ->
            IF DOMAIN choices.map = {} THEN Returns(<<>>) ELSE Raises("TypeError")
      [] choices.k = "list" -> pkg_refs_from(choices.items, 1)

\* flatten_choices(choices): the items of a list, a dict itself, nothing else
RECURSIVE flatten_choices(_)
flatten_choices(choices) ==
    IF choices = <<>> THEN <<>>
    ELSE LET choice == Head(choices)
         IN  (CASE choice.k = "list" -> choice.items
                [] choice.k = "dict" -> <<choice>>
                [] OTHER -> <<>>) \o flatten_choices(Tail(choices))

\* faulty variant of in_receipt_attrs: every id passes
in_receipt_attrs_any(receipt_id) == TRUE

\* receipt_id in ACROBAT_RECEIPT_ATTRS
in_receipt_attrs(receipt_id) ==
    receipt_id.k = "str" /\ receipt_id.s \in ACROBAT_RECEIPT_ATTRS

\* the loop of optional_receipts from the i-th receipt on: what it yields
RECURSIVE receipts_loop(_, _)
receipts_loop(receipts, i) ==
    IF i > Len(receipts) THEN Returns(<<>>)
    ELSE LET receipt_id == py_getitem(receipts[i], "id")
             version == py_getitem(receipts[i], "version")
             rest == receipts_loop(receipts, i + 1)
         IN  IF receipt_id.exc # "none" THEN receipt_id
             ELSE IF ~in_receipt_attrs(receipt_id.value) THEN rest
             ELSE IF version.exc # "none" THEN version
             ELSE IF rest.exc # "none" THEN rest
             ELSE Returns(<<[packageid |-> receipt_id.value,
                             version |-> version.value]>> \o rest.value)

\* [rd for rd in optional_receipts(dist_file)], dist_xml being the decoded file
optional_receipts(dist_xml) ==
    LET choices == py_path(dist_xml, <<"installer-gui-script", "choice">>)
    IN  IF choices.exc # "none" THEN choices
        ELSE LET refs == choice_pkg_refs(choices.value)
             IN  IF refs.exc # "none" THEN refs
                 ELSE receipts_loop(flatten_choices(refs.value), 1)

\* package["receipts"] at the end of process_package: the empty list, replaced
\* for Acrobat by the receipts of package_patch
package_receipts(sap_code, dist_file) ==
    IF sap_code = "APRO" THEN optional_receipts(PyDict(convert_xml(dist_file)))
    ELSE Returns(<<>>)

\* <pkg-ref id=... version=.../>: two ids of the list and one that is not
PkgRefs ==
    {Element("pkg-ref", a, <<>>) :
        a \in {[id |-> <<"com.adobe.acrobat.DC.viewer.app.pkg.MUI">>, version |-> <<"1">>],
               [id |-> <<"com.adobe.acrobat.DC.viewer.browser.pkg.MUI">>, version |-> <<"2">>],
               [id |-> <<"com.adobe.other">>, version |-> <<"1">>]}}

\* <choice>: without pkg-ref, with one or two, or with one that has no version
Choices ==
    {Element("choice", [id |-> <<"1">>], q) :
        q \in {<<>>} \cup {<<p>> : p \in PkgRefs} \cup {<<p, r>> : p, r \in PkgRefs}
                \cup {<<Element("pkg-ref",
                                [id |-> <<"com.adobe.acrobat.DC.viewer.app.pkg.MUI">>],
                                <<>>)>>}}

\* the root elements: the choice elements, after a pkg-ref of the root or not
ReceiptDistributions ==
    LET top == Element("pkg-ref",
                       [id |-> <<"com.adobe.acrobat.DC.viewer.app.pkg.MUI">>,
                        version |-> <<"9">>], <<>>)
    IN  {Element("installer-gui-script", NoAttrib, t \o c) :
            <<t, c>> \in {<<>>, <<top>>} \X SeqsUpTo(Choices, MaxChoices)}

InitRcp ==
    /\ InitRunIdle
    /\ InitXmlIdle
    /\ InitCmpIdle
    /\ InitOptIdle
    /\ InitDescIdle
    /\ InitDistIdle
    /\ rcp_in \in [sap_code : {"APRO"}, dist_file : ReceiptDistributions]
                    \cup [sap_code : {"PHSP"}, dist_file : {NoResult}]
    /\ rcp_out = NoResult

Receipts ==
    /\ ~rcp_out.done
    /\ rcp_out' = [done |-> TRUE,
                   receipts |-> package_receipts(rcp_in.sap_code, rcp_in.dist_file)]
    /\ UNCHANGED <<rcp_in, opt_in, opt_out, desc_in, desc_out, dist_in, dist_out,
                   run_vars, xml_vars, cmp_vars>>

NextRcp == Receipts

SpecRcp == InitRcp /\ [][NextRcp]_vars

\* the pkg-ref elements inside the choice elements of root, in document order
RECURSIVE RefsInChoices(_, _)
RefsInChoices(children, i) ==
    IF i > Len(children) THEN <<>>
    ELSE LET IsRef(el) == el.tag = "pkg-ref"
         IN  (IF children[i].tag = "choice"
                 THEN SelectSeq(children[i].children, IsRef) ELSE <<>>)
                \o RefsInChoices(children, i + 1)

\* the pkg-ref carries one of the five identifiers
Whitelisted(ref) ==
    /\ "id" \in DOMAIN ref.attrib
    /\ ref.attrib["id"] \in ACROBAT_RECEIPT_ATTRS

\* C21: the receipts of a record are, for Acrobat, one (id, version) pair for
\* each pkg-ref of the script's choices whose id is one of the five listed
\* identifiers, in document order, and nothing for any other pkg-ref; for a
\* product that is not Acrobat, whose nested package is never read, they are
\* the empty list.
C21_ReceiptsWhitelisted ==
    (rcp_out.done /\ rcp_out.receipts.exc = "none") =>
        IF rcp_in.sap_code = "APRO"
           THEN LET listed == SelectSeq(RefsInChoices(rcp_in.dist_file.children, 1),
                                        Whitelisted)
                    got == rcp_out.receipts.value
                IN  /\ Len(got) = Len(listed)
                    /\ \A i \in DOMAIN listed :
                          /\ got[i].packageid = PyStr(listed[i].attrib["id"])
                          /\ got[i].version = PyStr(listed[i].attrib["version"])
           ELSE rcp_out.receipts.value = <<>>

\* a script whose choices hold pkg-refs of two different listed ids and one of
\* another id, and the receipts made of it
C21_Witness ==
    /\ rcp_out.done
    /\ rcp_out.receipts.exc = "none"
    /\ rcp_in.sap_code = "APRO"
    /\ LET refs == RefsInChoices(rcp_in.dist_file.children, 1)
       IN  /\ \E i \in DOMAIN refs : ~Whitelisted(refs[i])
           /\ \E i, j \in DOMAIN refs :
                 /\ Whitelisted(refs[i])
                 /\ Whitelisted(refs[j])
                 /\ refs[i].attrib["id"] # refs[j].attrib["id"]
    /\ Len(rcp_out.receipts.value) >= 2

-----------------------------------------------------------------------------
(* Properties of the import branch and of the end of the run *)

\* C22: for each product the import step (munkiimport.package) is called
\* exactly when the record is not already imported and its product code is in
\* the selection; an already imported product is never handed to it, and a
\* product outside the selection is neither imported nor reported as skipped.
C22_ImportIffWanted ==
    [][(pc = "import" /\ pc' # "import") =>
          /\ calls'.import_step = "package" <=>
                (~pkg.imported /\ pkg.sap_code \in args.import_sap_code)
          /\ calls'.import_step # "package" =>
                calls'.munkiimport = calls.munkiimport /\ imported' = imported
          /\ pkg.imported => calls'.import_step # "package"
          /\ pkg.sap_code \notin args.import_sap_code => calls'.import_step = "pass"]_vars

\* a run in which one product was imported and the next, already imported, was
\* reported as skipped
C22_Witness ==
    /\ idx = 2
    /\ imported = 1
    /\ calls.munkiimport = 1
    /\ calls.import_step = "skip"
    /\ pkg.imported

\* C23: in a dry run the import tool is never spawned, no pkginfo file is
\* rewritten with receipts and the catalog rebuild never runs, whatever the
\* batch of products; the wanted products only have their command printed.
C23_DryRunSpawnsNothing ==
    args.dry_run =>
        /\ calls.munkiimport = 0
        /\ calls.pkginfo_write = 0
        /\ calls.makecatalogs = 0
        /\ imported = 0

\* a finished dry run whose last product was wanted, carried receipts and was
\* handed to munkiimport.package
C23_Witness ==
    /\ args.dry_run
    /\ pc = "done"
    /\ total = 2
    /\ calls.import_step = "package"
    /\ pkg.receipts # <<>>

\* C24: makecatalogs runs at most once in a run, only after every discovered
\* product has been processed, and only if at least one import of this run
\* succeeded and gave a pkginfo path; once an import has failed it never runs.
C24_MakecatalogsOnceAtEnd ==
    /\ calls.makecatalogs <= 1
    /\ calls.makecatalogs = 1 =>
          /\ pc = "done"
          /\ idx = total
          /\ imported > 0
          /\ calls.munkiimport >= imported
          /\ raised = "none"
    /\ raised # "none" => calls.makecatalogs = 0

\* a finished run of two products, one of them imported, after which the
\* catalogs were rebuilt
C24_Witness ==
    /\ pc = "done"
    /\ total = 2
    /\ imported = 1
    /\ calls.makecatalogs = 1

\* C25: when cleanup is called, the temporary expansion directory is deleted
\* if it exists, whether or not the unmount succeeds: after a failing detach
\* the expanded directory is not left behind.
C25_DirRemovedDespiteDetachFailure ==
    raised = "detach" => ~tmp_exists

====
